---- MODULE Spec2Model ----
(***************************************************************************)
(* Multi-tenant authentication and authorization layer of the Alert 360    *)
(* Video Shield server: server/tenant-auth.ts, server/tenant-routes.ts and *)
(* the tables of shared/tenant-schema.ts.                                  *)
(*                                                                         *)
(* A request is an async Express handler chain.  Every `await` on the      *)
(* database is a suspension point; the synchronous code between two awaits *)
(* runs as one atomic step of the Node event loop and is one action here.  *)
(***************************************************************************)
EXTENDS Integers, Sequences, FiniteSets, TLC

\* ------------------------------------------------------------------ bounds
MaxTime == 1
MaxTenants == 4
MaxStatusChanges == 1
MonthTicks == 2

\* the requests the one server process handles, possibly overlapping
Reqs == {"r1", "r2"}

\* ------------------------------------------------------- values and tables
NoKey == ""
NoSerial == <<>>
NoCtx == [tenantId |-> 0]
NoUser == [role |-> ""]
NoExpiry == -1
NoBody == [kind |-> "none"]
NoHeaders == [tier |-> "", limit |-> 0]

TenantStatuses == {"active", "suspended", "cancelled"}
LicenseStatuses == {"active", "suspended", "revoked"}
roleHierarchy == <<"viewer", "user", "manager", "admin">>
tierHierarchy == <<"basic", "pro", "enterprise">>

\* Array.prototype.indexOf: zero-based position, -1 when absent
IndexOf(seq, x) ==
    IF \E i \in 1..Len(seq) : seq[i] = x
    THEN (CHOOSE i \in 1..Len(seq) : seq[i] = x /\ \A j \in 1..(i - 1) : seq[j] # x) - 1
    ELSE -1

\* unique constraints declared by the schema, as sets of column lists
UniqueConstraints(table) ==
    CASE table = "tenants" -> {<<"slug">>, <<"apiKey">>}
      [] table = "hub_licenses" -> {<<"hubSerial">>, <<"licenseKey">>}
      [] table = "hubs" -> {<<"tenantId", "serialNumber">>}
      [] table = "api_usage" -> {}
      [] OTHER -> {}

\* --------------------------------------------------------------- slugify
LowerChar(c) ==
    CASE c = "A" -> "a"
      [] c = "B" -> "b"
      [] OTHER -> c

IsSlugChar(c) == c \in {"a", "b", "1"}

RECURSIVE ToLowerCase(_)
ToLowerCase(s) ==
    IF s = <<>> THEN <<>> ELSE <<LowerChar(Head(s))>> \o ToLowerCase(Tail(s))

\* .replace(/[^a-z0-9]/g, '-')
RECURSIVE ReplaceNonAlnum(_)
ReplaceNonAlnum(s) ==
    IF s = <<>> THEN <<>>
    ELSE <<IF IsSlugChar(Head(s)) THEN Head(s) ELSE "-">> \o ReplaceNonAlnum(Tail(s))

\* .replace(/-+/g, '-')
RECURSIVE CollapseDashes(_)
CollapseDashes(s) ==
    IF Len(s) < 2 THEN s
    ELSE IF Head(s) = "-" /\ Head(Tail(s)) = "-" THEN CollapseDashes(Tail(s))
    ELSE <<Head(s)>> \o CollapseDashes(Tail(s))

\* String.prototype.trim takes no argument: .trim('-') strips white space only
RECURSIVE TrimLeft(_)
TrimLeft(s) ==
    IF s # <<>> /\ Head(s) = " " THEN TrimLeft(Tail(s)) ELSE s

RECURSIVE TrimRight(_)
TrimRight(s) ==
    IF s # <<>> /\ s[Len(s)] = " " THEN TrimRight(SubSeq(s, 1, Len(s) - 1)) ELSE s

Trim(s) == TrimRight(TrimLeft(s))

Slugify(name) == Trim(CollapseDashes(ReplaceNonAlnum(ToLowerCase(name))))

\* ------------------------------------------------------------------ state
VARIABLES
    tenants,      \* table tenants: sequence of rows, id = position (serial)
    licenses,     \* table hub_licenses: sequence of rows
    hubs,         \* table hubs: sequence of rows
    cameras,      \* table cameras: set of rows
    events,       \* table events: set of rows
    usage,        \* table api_usage: set of rows
    now,          \* the clock read by new Date()
    req,          \* per request slot: position in the handler chain, req.* and res.*
    statusChanges, \* number of tenant status updates so far
    gctx, gmin, gres,  \* a guard applied on its own: context, threshold, outcome
    gkind,        \* which guard that is
    processes,    \* gst-launch child processes spawned so far, in spawn order
    activeStreams, \* JetsonCameraManager.activeStreams: cameraId -> process
    streamResult  \* what the last startCameraStream / stopCameraStream returned

storeVars == <<tenants, licenses, hubs, cameras, events, usage>>
guardVars == <<gctx, gmin, gres, gkind>>
jetsonVars == <<processes, activeStreams, streamResult>>
vars == <<tenants, licenses, hubs, cameras, events, usage, now, req, statusChanges, gctx, gmin, gres,
          gkind, processes, activeStreams, streamResult>>

\* `AO-${tenantSlug.toUpperCase()}-${sequence padded to 3}-${Date.now() in base 36}`,
\* kept as its three parts
generateHubSerial(tenantSlug, sequence, t) == <<tenantSlug, sequence, t>>

S1 == generateHubSerial(<<"a">>, 1, 0)
S2 == generateHubSerial(<<"a">>, 2, 0)
S3 == generateHubSerial(<<"b">>, 1, 0)
S4 == generateHubSerial(<<"b">>, 2, 0)

\* ---------------------------------------------------------- initial store
\* The database outlives the process: the server starts on rows written earlier.
InitialTenants == <<
    [id |-> 1, name |-> <<"a">>, slug |-> <<"a">>, apiKey |-> "ak_1",
     subscriptionTier |-> "basic", maxHubs |-> 3, maxCameras |-> 2, status |-> "active"],
    [id |-> 2, name |-> <<"b">>, slug |-> <<"b">>, apiKey |-> "ak_2",
     subscriptionTier |-> "pro", maxHubs |-> 1, maxCameras |-> 1, status |-> "active"] >>

InitialLicenses == <<
    [id |-> 1, tenantId |-> 1, hubSerial |-> S1, licenseKey |-> "lk_1",
     status |-> "active", expiresAt |-> NoExpiry],
    [id |-> 2, tenantId |-> 1, hubSerial |-> S2, licenseKey |-> "lk_2",
     status |-> "active", expiresAt |-> 0],
    [id |-> 3, tenantId |-> 2, hubSerial |-> S3, licenseKey |-> "lk_3",
     status |-> "revoked", expiresAt |-> NoExpiry],
    [id |-> 4, tenantId |-> 2, hubSerial |-> S4, licenseKey |-> "lk_4",
     status |-> "suspended", expiresAt |-> NoExpiry] >>

InitialHubs == <<
    [id |-> 1, tenantId |-> 1, serialNumber |-> S1, status |-> "offline"],
    [id |-> 2, tenantId |-> 2, serialNumber |-> S3, status |-> "offline"] >>

InitialCameras == {
    [id |-> 1, tenantId |-> 1, hubId |-> 1],
    [id |-> 2, tenantId |-> 2, hubId |-> 2] }

InitialEvents == {
    [id |-> 1, tenantId |-> 1, hubId |-> 1, severity |-> "high"],
    [id |-> 2, tenantId |-> 2, hubId |-> 2, severity |-> "high"],
    [id |-> 3, tenantId |-> 2, hubId |-> 2, severity |-> "low"] }

InitialUsage == {
    [tenantId |-> 1, endpoint |-> "/hubs", method |-> "GET", month |-> 0, requestCount |-> 1],
    [tenantId |-> 2, endpoint |-> "/hubs", method |-> "GET", month |-> 0, requestCount |-> 1] }

\* ------------------------------------------------------------ what clients send
PresentedApiKeys == {NoKey, "ak_1", "ak_2", "ak_3"}
GeneratedApiKeys == {"ak_3", "ak_4", "ak_1"}
GeneratedLicenseKeys == {"lk_5", "lk_1"}
\* X-License-Key and X-Hub-Serial as sent together
PresentedHubCredentials == {
    <<NoKey, NoSerial>>, <<"lk_1", NoSerial>>, <<NoKey, S1>>,
    <<"lk_1", S1>>, <<"lk_1", S2>>, <<"lk_2", S2>>,
    <<"lk_3", S3>>, <<"lk_4", S4>>, <<"lk_x", S1>> }
Names == {<<"A">>, <<"a", "1">>}
Severities == {"", "high"}

CoreRoutes == {
    [method |-> "GET", path |-> "/info"],
    [method |-> "POST", path |-> "/hub-licenses"] }

ReadRoutes == {
    [method |-> "GET", path |-> "/hub-licenses"],
    [method |-> "GET", path |-> "/hubs"],
    [method |-> "GET", path |-> "/cameras"],
    [method |-> "GET", path |-> "/events"],
    [method |-> "GET", path |-> "/analytics/usage"] }

HubRoutes == { [method |-> "POST", path |-> "/heartbeat"] }

CameraRoutes == { [method |-> "POST", path |-> "/cameras"] }
IngestRoutes == {
    [method |-> "POST", path |-> "/cameras"],
    [method |-> "POST", path |-> "/events"] }

\* req.body.cameras / req.body.events: the number of items, the tenantId and
\* hubId the items claim (0: the item names none), and whether the items carry
\* the columns the table requires
IngestBatches == {
    [kind |-> "batch", size |-> 1, tenantId |-> 0, hubId |-> 0, wellFormed |-> TRUE],
    [kind |-> "batch", size |-> 2, tenantId |-> 2, hubId |-> 2, wellFormed |-> TRUE],
    [kind |-> "batch", size |-> 1, tenantId |-> 2, hubId |-> 1, wellFormed |-> FALSE] }

HubBodies(rt) == IF rt.path = "/heartbeat" THEN {NoBody} ELSE IngestBatches

IdleReq == [pc |-> "idle", pipe |-> "none", method |-> "", path |-> "",
            apiKey |-> NoKey, licenseKey |-> NoKey, hubSerial |-> NoSerial,
            severity |-> "", draft |-> NoBody, found |-> 0, month |-> 0,
            ctx |-> NoCtx, status |-> 0, error |-> "", body |-> NoBody,
            headers |-> NoHeaders, nextCalled |-> 0, meterCalls |-> 0,
            logged |-> FALSE, threw |-> FALSE]

\* new Date().toISOString().slice(0, 7)
Month(t) == t \div MonthTicks

\* ------------------------------------------------------------ store queries
Rows(table) == {table[i] : i \in 1..Len(table)}

\* mutant: the status filter left out of the lookup
FindByApiKeyAnyStatus(key) ==
    SelectSeq(tenants, LAMBDA t : t.apiKey = key)

\* select().from(tenants).where(and(eq(apiKey, key), eq(status, "active")))
FindActiveByApiKey(key) ==
    SelectSeq(tenants, LAMBDA t : t.apiKey = key /\ t.status = "active")

\* mutant: the whole tenant row is handed on
TenantSnapshotWithKey(t) ==
    [id |-> t.id, name |-> t.name, slug |-> t.slug, apiKey |-> t.apiKey,
     subscriptionTier |-> t.subscriptionTier, maxHubs |-> t.maxHubs,
     maxCameras |-> t.maxCameras, status |-> t.status]

\* the tenant columns the hub-license join selects; never the apiKey
TenantSnapshot(t) ==
    [id |-> t.id, name |-> t.name, slug |-> t.slug,
     subscriptionTier |-> t.subscriptionTier, maxHubs |-> t.maxHubs,
     maxCameras |-> t.maxCameras, status |-> t.status]

\* mutant: the serial left out of the join condition
LicenseMatchesKeyOnly(l, licenseKey, hubSerial) ==
    /\ l.licenseKey = licenseKey
    /\ l.status = "active"
    /\ tenants[l.tenantId].status = "active"

LicenseMatches(l, licenseKey, hubSerial) ==
    /\ l.licenseKey = licenseKey
    /\ l.hubSerial = hubSerial
    /\ l.status = "active"
    /\ tenants[l.tenantId].status = "active"

\* hubLicenses innerJoin tenants where key, serial, license active, tenant active
FindActiveByKeyAndSerial(licenseKey, hubSerial) ==
    SelectSeq(licenses, LAMBDA l : LicenseMatches(l, licenseKey, hubSerial))

\* mutant: the expiry check left out
LicenseNeverExpired(l, t) == FALSE

\* license.expiresAt && new Date() > license.expiresAt
LicenseExpired(l, t) == l.expiresAt # NoExpiry /\ t > l.expiresAt

\* req.tenant = { tenantId, tenant: {...} }: no user is attached
ApiKeyContext(t) == [tenantId |-> t.id, tenant |-> TenantSnapshot(t), user |-> NoUser]

HubContext(l) ==
    [tenantId |-> l.tenantId, tenant |-> TenantSnapshot(tenants[l.tenantId]), user |-> NoUser]

\* ------------------------------------------------------------- usage meter
UsageConflictTarget == <<"tenantId", "endpoint", "method", "month">>

\* ON CONFLICT (target) needs a unique index on exactly the target columns
UsageArbiterExists == UsageConflictTarget \in UniqueConstraints("api_usage")

UsageKeyOf(u) == <<u.tenantId, u.endpoint, u.method, u.month>>

UsageCount(key) ==
    IF \E u \in usage : UsageKeyOf(u) = key
    THEN (CHOOSE u \in usage : UsageKeyOf(u) = key).requestCount
    ELSE 0

\* insert(apiUsage).values({..., requestCount: 1}).onConflictDoUpdate({target, set})
\* as the database executes it: one atomic statement, or an error and no write
UsageUpsert(key) ==
    IF ~UsageArbiterExists
    THEN [threw |-> TRUE, usage |-> usage]
    ELSE [threw |-> FALSE,
          usage |-> {u \in usage : UsageKeyOf(u) # key} \cup
                    {[tenantId |-> key[1], endpoint |-> key[2], method |-> key[3],
                      month |-> key[4], requestCount |-> UsageCount(key) + 1]}]

\* mutant: the catch of trackApiUsage rethrows
TrackApiUsageThrowsOn(result) == result.threw

\* trackApiUsage's catch logs and returns: nothing reaches the caller
TrackApiUsageRethrows(result) == FALSE

\* -------------------------------------------------------------- the guards
Pass == [next |-> TRUE, status |-> 0, error |-> "", message |-> ""]
Reject(status, error, message) ==
    [next |-> FALSE, status |-> status, error |-> error, message |-> message]

\* mutant: the comparison off by one
RequireRoleStrict(minRole, ctx) ==
    IF ctx = NoCtx \/ ctx.user = NoUser
    THEN Reject(403, "User authentication required",
                "This endpoint requires user-level authentication")
    ELSE IF IndexOf(roleHierarchy, ctx.user.role) <= IndexOf(roleHierarchy, minRole)
    THEN Reject(403, "Insufficient permissions", "This action requires role or higher")
    ELSE Pass

RequireRole(minRole, ctx) ==
    IF ctx = NoCtx \/ ctx.user = NoUser
    THEN Reject(403, "User authentication required",
                "This endpoint requires user-level authentication")
    ELSE IF IndexOf(roleHierarchy, ctx.user.role) < IndexOf(roleHierarchy, minRole)
    THEN Reject(403, "Insufficient permissions", "This action requires role or higher")
    ELSE Pass

\* mutant: the comparison off by one
RequireSubscriptionTierStrict(minTier, ctx) ==
    IF ctx = NoCtx
    THEN Reject(403, "Authentication required", "Tenant authentication required")
    ELSE IF IndexOf(tierHierarchy, ctx.tenant.subscriptionTier) <= IndexOf(tierHierarchy, minTier)
    THEN Reject(403, "Subscription upgrade required",
                "This feature requires subscription or higher")
    ELSE Pass

RequireSubscriptionTier(minTier, ctx) ==
    IF ctx = NoCtx
    THEN Reject(403, "Authentication required", "Tenant authentication required")
    ELSE IF IndexOf(tierHierarchy, ctx.tenant.subscriptionTier) < IndexOf(tierHierarchy, minTier)
    THEN Reject(403, "Subscription upgrade required",
                "This feature requires subscription or higher")
    ELSE Pass

\* mutant: the guard asks the store whether the tenant is still active
RequirePermissionLive(permission, ctx) ==
    IF ctx = NoCtx \/ ctx.user = NoUser
    THEN Reject(403, "User authentication required",
                "This endpoint requires user-level authentication")
    ELSE IF permission \notin ctx.user.permissions
            \/ tenants[ctx.tenantId].status # "active"
    THEN Reject(403, "Permission denied", "This action requires permission")
    ELSE Pass

\* !req.tenant.user.permissions.includes(permission)
RequirePermission(permission, ctx) ==
    IF ctx = NoCtx \/ ctx.user = NoUser
    THEN Reject(403, "User authentication required",
                "This endpoint requires user-level authentication")
    ELSE IF permission \notin ctx.user.permissions
    THEN Reject(403, "Permission denied", "This action requires permission")
    ELSE Pass

\* rateLimits[tier] || 100
TierLimit(tier) ==
    CASE tier = "basic" -> 100
      [] tier = "pro" -> 500
      [] tier = "enterprise" -> 2000
      [] OTHER -> 100

RateLimitHeaders(ctx) ==
    IF ctx = NoCtx THEN NoHeaders
    ELSE [tier |-> ctx.tenant.subscriptionTier, limit |-> TierLimit(ctx.tenant.subscriptionTier)]

\* ---------------------------------------------------------------- responses
ErrorBody(error, message) == [kind |-> "error", error |-> error, message |-> message]
BareError(error) == [kind |-> "error", error |-> error]

\* res.status(status).json(body): the request is finished
Respond(q, status, body) ==
    [q EXCEPT !.pc = "done", !.status = status, !.body = body,
              !.error = IF body.kind = "error" THEN body.error ELSE ""]

InFlight(pipe) == Cardinality({r \in Reqs : req[r].pipe = pipe /\ req[r].pc # "done"})

\* ---------------------------------------------------- rows a route returns
\* mutant: the severity filter replaces the tenant filter
ReadRowsSeverityOnly(path, severity, tenantId) ==
    CASE path = "/hub-licenses" -> {l \in Rows(licenses) : l.tenantId = tenantId}
      [] path = "/hubs" -> {h \in Rows(hubs) : h.tenantId = tenantId}
      [] path = "/cameras" -> {c \in cameras : c.tenantId = tenantId}
      [] path = "/events" ->
            IF severity # ""
            THEN {e \in events : e.severity = severity}
            ELSE {e \in events : e.tenantId = tenantId}
      [] path = "/analytics/usage" -> {u \in usage : u.tenantId = tenantId}
      [] OTHER -> {}

\* GET /api/tenant/hub-licenses, /hubs, /cameras, /events, /analytics/usage
ReadRows(path, severity, tenantId) ==
    CASE path = "/hub-licenses" -> {l \in Rows(licenses) : l.tenantId = tenantId}
      [] path = "/hubs" -> {h \in Rows(hubs) : h.tenantId = tenantId}
      [] path = "/cameras" -> {c \in cameras : c.tenantId = tenantId}
      [] path = "/events" ->
            IF severity # ""
            THEN {e \in events : e.tenantId = tenantId /\ e.severity = severity}
            ELSE {e \in events : e.tenantId = tenantId}
      [] path = "/analytics/usage" -> {u \in usage : u.tenantId = tenantId}
      [] OTHER -> {}

\* insertHubLicenseSchema.parse: tenantId and hubSerial are NOT NULL columns
\* without default and are not omitted from the insert schema
LicenseBodyValid(body) == body.hasTenantId /\ body.hasHubSerial

\* ------------------------------------- what runs after authentication: next()
\* app.use("/api/tenant", authenticateApiKey, rateLimitByTier), then the route
TenantDispatch(q) ==
    LET q1 == [q EXCEPT !.nextCalled = @ + 1, !.headers = RateLimitHeaders(q.ctx)]
        role == RequireRole("admin", q1.ctx)
        tier == RequireSubscriptionTier("pro", q1.ctx)
    IN  CASE q.path = "/info" ->
               Respond(q1, 200, [kind |-> "info", tenant |-> q1.ctx.tenant])
          [] q.path = "/hub-licenses" /\ q.method = "POST" ->
               IF ~role.next
               THEN Respond(q1, role.status, ErrorBody(role.error, role.message))
               ELSE IF ~LicenseBodyValid(q1.draft)
               THEN Respond(q1, 400, BareError("Validation error"))
               ELSE [q1 EXCEPT !.pc = "issue_count"]
          [] q.path = "/analytics/usage" ->
               IF tier.next
               THEN [q1 EXCEPT !.pc = "read"]
               ELSE Respond(q1, tier.status, ErrorBody(tier.error, tier.message))
          [] OTHER -> [q1 EXCEPT !.pc = "read"]

\* app.use("/api/hub", authenticateHubLicense), then the route
HubDispatch(q) ==
    [q EXCEPT !.nextCalled = @ + 1,
              !.pc = CASE q.path = "/cameras" -> "cam_hub"
                       [] q.path = "/events" -> "ev_hub"
                       [] OTHER -> "hb_select"]

\* the tail of both authentication middlewares: await trackApiUsage(...); next()
AfterTrack(q, result, dispatched) ==
    IF TrackApiUsageRethrows(result)
    THEN Respond(q, 500, ErrorBody("Authentication failed",
                                   "Internal server error during authentication"))
    ELSE dispatched

\* mutant: next() without the call of trackApiUsage
AttachWithoutTrack(q, ctx, pc) ==
    [q EXCEPT !.ctx = ctx, !.month = Month(now), !.pc = pc]

\* req.tenant = {...}; await trackApiUsage(req, tenantId): the call is made, the
\* month is read from the clock, and the middleware waits for the upsert
AttachAndTrack(q, ctx, pc) ==
    [q EXCEPT !.ctx = ctx, !.month = Month(now), !.meterCalls = @ + 1, !.pc = pc]

\* mutant: the catch of the middleware lets the request through
LookupFailedOpen(q, message) ==
    [q EXCEPT !.threw = TRUE, !.nextCalled = @ + 1, !.pc = "done", !.status = 200]

\* catch (error) { console.error(...); res.status(500).json({error, message}) }
\* of both authentication middlewares: the awaited lookup rejected
LookupFailed(q, message) ==
    Respond([q EXCEPT !.threw = TRUE], 500, ErrorBody("Authentication failed", message))

\* ------------------------------------------------------ API-key pipeline
\* authenticateApiKey up to the await of the tenant lookup
BeginTenantRequest(r, routes) ==
    /\ req[r].pc = "idle"
    /\ \E hdr \in PresentedApiKeys, qry \in {NoKey, "ak_1"}, rt \in routes, sev \in Severities,
          body \in BOOLEAN :
          LET apiKey == IF hdr # NoKey THEN hdr ELSE qry
              q == [IdleReq EXCEPT !.pipe = "tenant", !.method = rt.method, !.path = rt.path,
                                   !.apiKey = apiKey,
                                   !.draft = IF rt.method = "POST"
                                             THEN [kind |-> "license", hasTenantId |-> body,
                                                   hasHubSerial |-> body]
                                             ELSE NoBody,
                                   !.severity = IF rt.path = "/events" THEN sev ELSE ""]
          IN  req' = [req EXCEPT ![r] =
                        IF apiKey = NoKey
                        THEN Respond(q, 401, ErrorBody("API key required",
                                             "Provide API key in X-API-Key header or api_key query parameter"))
                        ELSE [q EXCEPT !.pc = "key_lookup"]]
    /\ UNCHANGED <<storeVars, now, statusChanges, guardVars, jetsonVars>>

\* the lookup returns (or throws); context attached, trackApiUsage called
KeyLookup(r) ==
    /\ req[r].pc = "key_lookup"
    /\ \E threw \in BOOLEAN :
          LET q == req[r]
              found == FindActiveByApiKey(q.apiKey)
          IN  req' = [req EXCEPT ![r] =
                        IF threw
                        THEN LookupFailed(q, "Internal server error during authentication")
                        ELSE IF found = <<>>
                        THEN Respond(q, 401, ErrorBody("Invalid API key", "API key not found or tenant is inactive"))
                        ELSE AttachAndTrack(q, ApiKeyContext(found[1]), "key_track")]
    /\ UNCHANGED <<storeVars, now, statusChanges, guardVars, jetsonVars>>

\* the usage upsert has run; trackApiUsage returns; next()
KeyTracked(r) ==
    /\ req[r].pc = "key_track"
    /\ LET q == req[r]
           result == UsageUpsert(<<q.ctx.tenantId, q.path, q.method, q.month>>)
           q1 == [q EXCEPT !.logged = result.threw]
       IN  /\ usage' = result.usage
           /\ req' = [req EXCEPT ![r] = AfterTrack(q1, result, TenantDispatch(q1))]
    /\ UNCHANGED <<tenants, licenses, hubs, cameras, events, now, statusChanges, guardVars, jetsonVars>>

\* the select of a read route returns
ReadQuery(r) ==
    /\ req[r].pc = "read"
    /\ LET q == req[r]
       IN  req' = [req EXCEPT ![r] =
                     Respond(q, 200, [kind |-> "rows",
                                      rows |-> ReadRows(q.path, q.severity, q.ctx.tenantId)])]
    /\ UNCHANGED <<storeVars, now, statusChanges, guardVars, jetsonVars>>

\* ------------------------------------------ POST /api/tenant/hub-licenses
\* select count(*) from hub_licenses where tenantId returns; the cap check
IssueCount(r) ==
    /\ req[r].pc = "issue_count"
    /\ LET q == req[r]
           count == Cardinality({l \in Rows(licenses) : l.tenantId = q.ctx.tenantId})
       IN  req' = [req EXCEPT ![r] =
                     IF count >= q.ctx.tenant.maxHubs
                     THEN Respond(q, 400, ErrorBody("Hub limit exceeded",
                                                    "Your subscription allows maximum hubs"))
                     ELSE [q EXCEPT !.found = count, !.pc = "issue_insert"]]
    /\ UNCHANGED <<storeVars, now, statusChanges, guardVars, jetsonVars>>

\* a row the unique indexes of table hub_licenses refuse
LicenseInsertConflicts(row) ==
    \E l \in Rows(licenses) : l.hubSerial = row.hubSerial \/ l.licenseKey = row.licenseKey

\* insert(hubLicenses).values({...validatedData, tenantId, licenseKey, hubSerial,
\* status: "active"}).returning()
IssueInsert(r) ==
    /\ req[r].pc = "issue_insert"
    /\ \E licenseKey \in GeneratedLicenseKeys :
          LET q == req[r]
              row == [id |-> Len(licenses) + 1, tenantId |-> q.ctx.tenantId,
                      hubSerial |-> generateHubSerial(q.ctx.tenant.slug, q.found + 1, now),
                      licenseKey |-> licenseKey, status |-> "active",
                      expiresAt |-> NoExpiry]
          IN  IF LicenseInsertConflicts(row)
              THEN /\ req' = [req EXCEPT ![r] =
                                Respond(q, 500, BareError("Failed to create hub license"))]
                   /\ UNCHANGED licenses
              ELSE /\ licenses' = Append(licenses, row)
                   /\ req' = [req EXCEPT ![r] =
                                Respond(q, 201, [kind |-> "license", license |-> row])]
    /\ UNCHANGED <<tenants, hubs, cameras, events, usage, now, statusChanges, guardVars, jetsonVars>>

\* ------------------------------------------------------- POST /api/tenants
\* insertTenantSchema.parse: name and slug are NOT NULL columns without default
TenantBodyValid(body) == body.hasName /\ body.hasSlug

\* the handler up to the await of the slug query
BeginCreateTenant(r) ==
    /\ req[r].pc = "idle"
    /\ Len(tenants) + InFlight("create") < MaxTenants
    /\ \E name \in Names, hasSlug \in BOOLEAN, apiKey \in GeneratedApiKeys :
          LET body == [hasName |-> TRUE, hasSlug |-> hasSlug]
              q == [IdleReq EXCEPT !.pipe = "create", !.method = "POST", !.path = "/api/tenants"]
          IN  req' = [req EXCEPT ![r] =
                        IF ~TenantBodyValid(body)
                        THEN Respond(q, 400, BareError("Validation error"))
                        ELSE [q EXCEPT !.pc = "create_check",
                                       !.draft = [kind |-> "tenant", name |-> name,
                                                  slug |-> Slugify(name), apiKey |-> apiKey,
                                                  subscriptionTier |-> "pro",
                                                  maxHubs |-> 2, maxCameras |-> 2]]]
    /\ UNCHANGED <<storeVars, now, statusChanges, guardVars, jetsonVars>>

\* select().from(tenants).where(eq(slug)) returns
CreateCheck(r) ==
    /\ req[r].pc = "create_check"
    /\ LET q == req[r]
       IN  req' = [req EXCEPT ![r] =
                     IF \E t \in Rows(tenants) : t.slug = q.draft.slug
                     THEN Respond(q, 400, ErrorBody("Tenant name already exists",
                                                    "Please choose a different company name"))
                     ELSE [q EXCEPT !.pc = "create_insert"]]
    /\ UNCHANGED <<storeVars, now, statusChanges, guardVars, jetsonVars>>

\* mutant: no unique index on slug
TenantInsertConflictsKeyOnly(row) ==
    \E t \in Rows(tenants) : t.apiKey = row.apiKey

\* a row the unique indexes of table tenants refuse
TenantInsertConflicts(row) ==
    \E t \in Rows(tenants) : t.slug = row.slug \/ t.apiKey = row.apiKey

\* insert(tenants).values({...validatedData, slug, apiKey, status: "active"}).returning()
CreateInsert(r) ==
    /\ req[r].pc = "create_insert"
    /\ LET q == req[r]
           row == [id |-> Len(tenants) + 1, name |-> q.draft.name, slug |-> q.draft.slug,
                   apiKey |-> q.draft.apiKey, subscriptionTier |-> q.draft.subscriptionTier,
                   maxHubs |-> q.draft.maxHubs, maxCameras |-> q.draft.maxCameras,
                   status |-> "active"]
       IN  IF TenantInsertConflicts(row)
           THEN /\ req' = [req EXCEPT ![r] = Respond(q, 500, BareError("Failed to create tenant"))]
                /\ UNCHANGED tenants
           ELSE /\ tenants' = Append(tenants, row)
                /\ req' = [req EXCEPT ![r] =
                             Respond(q, 201, [kind |-> "created", tenant |-> TenantSnapshot(row),
                                              apiKey |-> row.apiKey])]
    /\ UNCHANGED <<licenses, hubs, cameras, events, usage, now, statusChanges, guardVars, jetsonVars>>

\* ------------------------------- PATCH /api/dealer/customers/:id/status
UpdateStatus(id, status) ==
    /\ id \in 1..Len(tenants)
    /\ tenants[id].status # status
    /\ statusChanges < MaxStatusChanges
    /\ statusChanges' = statusChanges + 1
    /\ tenants' = [tenants EXCEPT ![id].status = status]
    /\ UNCHANGED <<licenses, hubs, cameras, events, usage, now, req, guardVars, jetsonVars>>

\* ---------------------------------------------------------------- the clock
Tick ==
    /\ now < MaxTime
    /\ now' = now + 1
    /\ UNCHANGED <<storeVars, req, statusChanges, guardVars, jetsonVars>>

\* ---------------------------------------------------- hub-license pipeline
\* mutant: the rejection names the check that failed
InvalidHubLicenseDetailed(q) ==
    IF \E l \in Rows(licenses) : l.licenseKey = q.licenseKey /\ l.status = "revoked"
    THEN Respond(q, 401, ErrorBody("License revoked", "Hub license has been revoked"))
    ELSE Respond(q, 401, ErrorBody("Invalid hub license",
                                   "License key/serial combination not found or inactive"))

\* if (!license) return res.status(401).json({...}): one answer for every row
\* the join did not return
InvalidHubLicense(q) ==
    Respond(q, 401, ErrorBody("Invalid hub license",
                              "License key/serial combination not found or inactive"))

\* mutant: rejected only when both headers are missing
HubCredentialsBothMissing(licenseKey, hubSerial) ==
    licenseKey = NoKey /\ hubSerial = NoSerial

\* if (!licenseKey || !hubSerial)
HubCredentialsMissing(licenseKey, hubSerial) ==
    licenseKey = NoKey \/ hubSerial = NoSerial

\* authenticateHubLicense up to the await of the license lookup
BeginHubRequest(r, routes) ==
    /\ req[r].pc = "idle"
    /\ \E cred \in PresentedHubCredentials, rt \in routes :
        \E body \in HubBodies(rt) :
          LET lk == cred[1]
              hs == cred[2]
              q == [IdleReq EXCEPT !.pipe = "hub", !.method = rt.method, !.path = rt.path,
                                   !.licenseKey = lk, !.hubSerial = hs, !.draft = body]
          IN  req' = [req EXCEPT ![r] =
                        IF HubCredentialsMissing(lk, hs)
                        THEN Respond(q, 401, ErrorBody("Hub authentication required",
                                                       "Provide X-License-Key and X-Hub-Serial headers"))
                        ELSE [q EXCEPT !.pc = "hub_lookup"]]
    /\ UNCHANGED <<storeVars, now, statusChanges, guardVars, jetsonVars>>

\* mutant: the expiry check placed after the context is attached and the
\* usage call made
RejectExpiredAfterAttach(q, license) ==
    Respond([q EXCEPT !.ctx = HubContext(license), !.meterCalls = @ + 1], 401,
            ErrorBody("License expired", "Hub license has expired, please renew"))

\* if (license.expiresAt && new Date() > license.expiresAt) return res.status(401)...
RejectExpired(q, license) ==
    Respond(q, 401, ErrorBody("License expired", "Hub license has expired, please renew"))

\* the join returns (or throws); expiry check; context attached; trackApiUsage called
HubLookup(r) ==
    /\ req[r].pc = "hub_lookup"
    /\ \E threw \in BOOLEAN :
          LET q == req[r]
              found == FindActiveByKeyAndSerial(q.licenseKey, q.hubSerial)
          IN  req' = [req EXCEPT ![r] =
                        IF threw
                        THEN LookupFailed(q, "Internal server error during hub authentication")
                        ELSE IF found = <<>>
                        THEN InvalidHubLicense(q)
                        ELSE IF LicenseExpired(found[1], now)
                        THEN RejectExpired(q, found[1])
                        ELSE AttachAndTrack(q, HubContext(found[1]), "hub_track")]
    /\ UNCHANGED <<storeVars, now, statusChanges, guardVars, jetsonVars>>

HubTracked(r) ==
    /\ req[r].pc = "hub_track"
    /\ LET q == req[r]
           result == UsageUpsert(<<q.ctx.tenantId, q.path, q.method, q.month>>)
           q1 == [q EXCEPT !.logged = result.threw]
       IN  /\ usage' = result.usage
           /\ req' = [req EXCEPT ![r] = AfterTrack(q1, result, HubDispatch(q1))]
    /\ UNCHANGED <<tenants, licenses, hubs, cameras, events, now, statusChanges, guardVars, jetsonVars>>

\* -------------------------------------------------- POST /api/hub/heartbeat
\* select().from(tenantsHubs).where(and(eq(tenantId), eq(serialNumber))) returns
HeartbeatSelect(r) ==
    /\ req[r].pc = "hb_select"
    /\ LET q == req[r]
           existing == SelectSeq(hubs, LAMBDA h : h.tenantId = q.ctx.tenantId
                                                  /\ h.serialNumber = q.hubSerial)
       IN  req' = [req EXCEPT ![r] =
                     [q EXCEPT !.found = IF existing = <<>> THEN 0 ELSE existing[1].id,
                               !.pc = "hb_write"]]
    /\ UNCHANGED <<storeVars, now, statusChanges, guardVars, jetsonVars>>

\* the update of the row found, or the insert of a new row, returns
HeartbeatWrite(r) ==
    /\ req[r].pc = "hb_write"
    /\ LET q == req[r]
           row == [id |-> Len(hubs) + 1, tenantId |-> q.ctx.tenantId,
                   serialNumber |-> q.hubSerial, status |-> "online"]
       IN  IF q.found # 0
           THEN /\ hubs' = [hubs EXCEPT ![q.found].status = "online"]
                /\ req' = [req EXCEPT ![r] =
                             Respond(q, 200, [kind |-> "hub", hub |-> hubs'[q.found]])]
           ELSE IF \E h \in Rows(hubs) : h.tenantId = row.tenantId
                                         /\ h.serialNumber = row.serialNumber
           THEN /\ req' = [req EXCEPT ![r] = Respond(q, 500, BareError("Failed to process heartbeat"))]
                /\ UNCHANGED hubs
           ELSE /\ hubs' = Append(hubs, row)
                /\ req' = [req EXCEPT ![r] = Respond(q, 201, [kind |-> "hub", hub |-> row])]
    /\ UNCHANGED <<tenants, licenses, cameras, events, usage, now, statusChanges, guardVars, jetsonVars>>

\* ---------------------------------- POST /api/hub/cameras, /api/hub/events
\* select().from(tenantsHubs).where(and(eq(tenantId), eq(serialNumber))) returns
IngestFindHub(q, pc) ==
    LET found == SelectSeq(hubs, LAMBDA h : h.tenantId = q.ctx.tenantId
                                            /\ h.serialNumber = q.hubSerial)
    IN  IF found = <<>>
        THEN Respond(q, 404, BareError("Hub not found"))
        ELSE [q EXCEPT !.found = found[1].id, !.pc = pc]

CamerasFindHub(r) ==
    /\ req[r].pc = "cam_hub"
    /\ req' = [req EXCEPT ![r] = IngestFindHub(req[r], "cam_count")]
    /\ UNCHANGED <<storeVars, now, statusChanges, guardVars, jetsonVars>>

\* existingCameras[0].count + cameras.length: count(*) is a bigint, which the
\* driver hands over as a number or as a string (no cast in the query); a
\* string makes + a concatenation, read back as a number by the comparison
\* (batches here have fewer than ten items, one digit)
CountPlusLength(count, length, asString) ==
    IF asString THEN count * 10 + length ELSE count + length

\* mutant: the batch size left out of the check
CameraLimitExceededCountOnly(count, length, maxCameras, asString) ==
    count > maxCameras

CameraLimitExceeded(count, length, maxCameras, asString) ==
    CountPlusLength(count, length, asString) > maxCameras

\* select count(*) from cameras where tenantId returns; the cap check
CamerasCount(r) ==
    /\ req[r].pc = "cam_count"
    /\ \E asString \in BOOLEAN :
          LET q == req[r]
              count == Cardinality({c \in cameras : c.tenantId = q.ctx.tenantId})
          IN  req' = [req EXCEPT ![r] =
                        IF CameraLimitExceeded(count, q.draft.size, q.ctx.tenant.maxCameras,
                                               asString)
                        THEN Respond(q, 400, ErrorBody("Camera limit exceeded",
                                                       "Your subscription allows maximum cameras"))
                        ELSE [q EXCEPT !.pc = "cam_insert"]]
    /\ UNCHANGED <<storeVars, now, statusChanges, guardVars, jetsonVars>>

\* mutant: the spread of the item comes last, so what the item claims wins
IngestRowBodyWins(id, item, tenantId, hubId) ==
    [id |-> id,
     tenantId |-> IF item.tenantId # 0 THEN item.tenantId ELSE tenantId,
     hubId |-> IF item.hubId # 0 THEN item.hubId ELSE hubId]

\* { ...item, tenantId: req.tenant.tenantId, hubId: hub.id }
IngestRow(id, item, tenantId, hubId) ==
    [id |-> id, tenantId |-> tenantId, hubId |-> hubId]

\* insert(tenantsCameras).values(cameras.map(...)).returning(): one statement,
\* all rows or, when a row lacks a required column, an error and no row
CamerasInsert(r) ==
    /\ req[r].pc = "cam_insert"
    /\ LET q == req[r]
           rows == {IngestRow(Cardinality(cameras) + k, q.draft, q.ctx.tenantId, q.found) :
                       k \in 1..q.draft.size}
       IN  IF ~q.draft.wellFormed
           THEN /\ req' = [req EXCEPT ![r] = Respond(q, 500, BareError("Failed to add cameras"))]
                /\ UNCHANGED cameras
           ELSE /\ cameras' = cameras \cup rows
                /\ req' = [req EXCEPT ![r] = Respond(q, 201, [kind |-> "cameras", rows |-> rows])]
    /\ UNCHANGED <<tenants, licenses, hubs, events, usage, now, statusChanges, guardVars, jetsonVars>>

EventsFindHub(r) ==
    /\ req[r].pc = "ev_hub"
    /\ req' = [req EXCEPT ![r] = IngestFindHub(req[r], "ev_insert")]
    /\ UNCHANGED <<storeVars, now, statusChanges, guardVars, jetsonVars>>

\* insert(tenantsEvents).values(events.map(...)).returning()
EventsInsert(r) ==
    /\ req[r].pc = "ev_insert"
    /\ LET q == req[r]
           rows == {IngestRow(Cardinality(events) + k, q.draft, q.ctx.tenantId, q.found)
                       @@ [severity |-> "high"] : k \in 1..q.draft.size}
       IN  IF ~q.draft.wellFormed
           THEN /\ req' = [req EXCEPT ![r] = Respond(q, 500, BareError("Failed to add events"))]
                /\ UNCHANGED events
           ELSE /\ events' = events \cup rows
                /\ req' = [req EXCEPT ![r] = Respond(q, 201, [kind |-> "events", rows |-> rows])]
    /\ UNCHANGED <<tenants, licenses, hubs, cameras, usage, now, statusChanges, guardVars, jetsonVars>>

\* ------------------------------------------------- JetsonCameraManager
MaxProcesses == 3
CameraIds == {"cam1", "cam2"}
NoProcess == 0
NoResult == [op |-> "none", cameraId |-> "", success |-> FALSE]

\* private activeStreams: Map<string, ChildProcess> = new Map()
JetsonIdle ==
    /\ processes = <<>>
    /\ activeStreams = [id \in CameraIds |-> NoProcess]
    /\ streamResult = NoResult

\* startCameraStream(cameraId, camera, profileIndex): a profile that is not
\* there throws before spawn and the catch returns false; otherwise the process
\* is spawned, its 'close' handler registered and activeStreams.set run
StartCameraStream(cameraId) ==
    /\ Len(processes) < MaxProcesses
    /\ \E profileFound \in BOOLEAN :
          IF profileFound
          THEN /\ processes' = Append(processes, [cameraId |-> cameraId, state |-> "running"])
               /\ activeStreams' = [activeStreams EXCEPT ![cameraId] = Len(processes) + 1]
               /\ streamResult' = [op |-> "start", cameraId |-> cameraId, success |-> TRUE]
          ELSE /\ streamResult' = [op |-> "start", cameraId |-> cameraId, success |-> FALSE]
               /\ UNCHANGED <<processes, activeStreams>>
    /\ UNCHANGED <<storeVars, now, req, statusChanges, guardVars>>

\* stopCameraStream(cameraId): kill('SIGTERM') the mapped process and delete
\* the entry; the process ends, and its 'close' is emitted, later
StopCameraStream(cameraId) ==
    /\ LET process == activeStreams[cameraId]
       IN  IF process # NoProcess
           THEN /\ processes' = [processes EXCEPT ![process].state =
                                    IF @ = "running" THEN "killed" ELSE @]
                /\ activeStreams' = [activeStreams EXCEPT ![cameraId] = NoProcess]
                /\ streamResult' = [op |-> "stop", cameraId |-> cameraId, success |-> TRUE]
           ELSE /\ streamResult' = [op |-> "stop", cameraId |-> cameraId, success |-> FALSE]
                /\ UNCHANGED <<processes, activeStreams>>
    /\ UNCHANGED <<storeVars, now, req, statusChanges, guardVars>>

\* a child process ends: the stream ended on its own, or SIGTERM arrived
ProcessExits(p) ==
    /\ processes[p].state \in {"running", "killed"}
    /\ processes' = [processes EXCEPT ![p].state = "exited"]
    /\ UNCHANGED <<storeVars, now, req, statusChanges, guardVars, activeStreams, streamResult>>

\* gstProcess.on('close', ...): this.activeStreams.delete(cameraId)
ProcessClose(p) ==
    /\ processes[p].state = "exited"
    /\ processes' = [processes EXCEPT ![p].state = "closed"]
    /\ activeStreams' = [activeStreams EXCEPT ![processes[p].cameraId] = NoProcess]
    /\ UNCHANGED <<storeVars, now, req, statusChanges, guardVars, streamResult>>

NextJetson ==
    \/ \E id \in CameraIds : StartCameraStream(id)
    \/ \E id \in CameraIds : StopCameraStream(id)
    \/ \E p \in 1..Len(processes) : ProcessExits(p)
    \/ \E p \in 1..Len(processes) : ProcessClose(p)

\* ------------------------------------------------------------ specification
NoGuard == [next |-> FALSE, status |-> 0, error |-> "", message |-> "not applied"]

Init ==
    /\ tenants = InitialTenants
    /\ licenses = InitialLicenses
    /\ hubs = InitialHubs
    /\ cameras = InitialCameras
    /\ events = InitialEvents
    /\ usage = InitialUsage
    /\ now = 0
    /\ req = [r \in Reqs |-> IdleReq]
    /\ statusChanges = 0
    /\ JetsonIdle
    /\ gctx = NoCtx
    /\ gmin = ""
    /\ gres = NoGuard
    /\ gkind = ""

\* both pipelines up to the hand-over to the route, the routes that answer at once
Next ==
    \/ \E r \in Reqs : BeginTenantRequest(r, CoreRoutes)
    \/ \E r \in Reqs : KeyLookup(r)
    \/ \E r \in Reqs : KeyTracked(r)
    \/ \E r \in Reqs : BeginCreateTenant(r)
    \/ \E r \in Reqs : CreateCheck(r)
    \/ \E r \in Reqs : CreateInsert(r)
    \/ \E r \in Reqs : BeginHubRequest(r, HubRoutes)
    \/ \E r \in Reqs : HubLookup(r)
    \/ \E r \in Reqs : HubTracked(r)
    \/ \E id \in 1..MaxTenants, status \in TenantStatuses : UpdateStatus(id, status)
    \/ Tick

Spec == Init /\ [][Next]_vars

\* the camera manager on its own
SpecJetson == Init /\ [][NextJetson]_vars

\* the tenant-authenticated read routes beside the writers of the rows they return
NextReads ==
    \/ \E r \in Reqs : BeginTenantRequest(r, ReadRoutes)
    \/ \E r \in Reqs : KeyLookup(r)
    \/ \E r \in Reqs : KeyTracked(r)
    \/ \E r \in Reqs : ReadQuery(r)
    \/ \E r \in Reqs : BeginHubRequest(r, HubRoutes)
    \/ \E r \in Reqs : HubLookup(r)
    \/ \E r \in Reqs : HubTracked(r)
    \/ \E r \in Reqs : HeartbeatSelect(r)
    \/ \E r \in Reqs : HeartbeatWrite(r)

SpecReads == Init /\ [][NextReads]_vars

\* device-reported ingestion: camera and event batches, requests overlapping
NextIngest ==
    \/ \E r \in Reqs : BeginHubRequest(r, IngestRoutes)
    \/ \E r \in Reqs : HubLookup(r)
    \/ \E r \in Reqs : HubTracked(r)
    \/ \E r \in Reqs : CamerasFindHub(r)
    \/ \E r \in Reqs : CamerasCount(r)
    \/ \E r \in Reqs : CamerasInsert(r)
    \/ \E r \in Reqs : EventsFindHub(r)
    \/ \E r \in Reqs : EventsInsert(r)

SpecIngest == Init /\ [][NextIngest]_vars

\* camera batches reported one after the other: a request starts when no other
\* is being handled
BeginCamerasAlone(r) ==
    /\ \A o \in Reqs \ {r} : req[o].pc \in {"idle", "done"}
    /\ BeginHubRequest(r, CameraRoutes)

NextCameras ==
    \/ \E r \in Reqs : BeginCamerasAlone(r)
    \/ \E r \in Reqs : HubLookup(r)
    \/ \E r \in Reqs : HubTracked(r)
    \/ \E r \in Reqs : CamerasFindHub(r)
    \/ \E r \in Reqs : CamerasCount(r)
    \/ \E r \in Reqs : CamerasInsert(r)

SpecCameras == Init /\ [][NextCameras]_vars

\* ------------------------------------------- a guard applied on its own
\* requireRole is exported and takes any request: every context shape and
\* every threshold a caller can pass
GuardRoles == {"viewer", "user", "manager", "admin", "operator"}
GuardThresholds == {"viewer", "user", "manager", "admin", "owner"}

GuardContexts ==
    {NoCtx} \cup
    {[tenantId |-> t.id, tenant |-> TenantSnapshot(t), user |-> u] :
        t \in Rows(InitialTenants),
        u \in {NoUser} \cup {[role |-> ro] : ro \in GuardRoles}}

InitGuard ==
    /\ tenants = InitialTenants
    /\ licenses = InitialLicenses
    /\ hubs = InitialHubs
    /\ cameras = InitialCameras
    /\ events = InitialEvents
    /\ usage = InitialUsage
    /\ now = 0
    /\ req = [r \in Reqs |-> IdleReq]
    /\ statusChanges = 0
    /\ JetsonIdle
    /\ gctx \in GuardContexts
    /\ gmin \in GuardThresholds
    /\ gres = NoGuard
    /\ gkind = "requireRole"

\* requireRole(gmin)(req, res, next) with req.tenant = gctx
ApplyRequireRole ==
    /\ gkind = "requireRole"
    /\ gres = NoGuard
    /\ gres' = RequireRole(gmin, gctx)
    /\ UNCHANGED <<storeVars, now, req, statusChanges, gctx, gmin, gkind, jetsonVars>>

NextGuard == ApplyRequireRole

SpecGuard == InitGuard /\ [][NextGuard]_vars

\* requireSubscriptionTier is exported as well: every tier a tenant row can
\* carry (the column is a free varchar) and every threshold a caller can pass
GuardTiers == {"basic", "pro", "enterprise", "trial"}
TierThresholds == {"basic", "pro", "enterprise", "premium"}

TierContexts ==
    {NoCtx} \cup
    {[tenantId |-> t.id,
      tenant |-> [TenantSnapshot(t) EXCEPT !.subscriptionTier = tr],
      user |-> NoUser] :
        t \in Rows(InitialTenants), tr \in GuardTiers}

AnalyticsRoutes == { [method |-> "GET", path |-> "/analytics/usage"] }

InitTier ==
    /\ tenants = InitialTenants
    /\ licenses = InitialLicenses
    /\ hubs = InitialHubs
    /\ cameras = InitialCameras
    /\ events = InitialEvents
    /\ usage = InitialUsage
    /\ now = 0
    /\ req = [r \in Reqs |-> IdleReq]
    /\ statusChanges = 0
    /\ JetsonIdle
    /\ gctx \in TierContexts
    /\ gmin \in TierThresholds
    /\ gres = NoGuard
    /\ gkind = "requireSubscriptionTier"

\* requireSubscriptionTier(gmin)(req, res, next) with req.tenant = gctx
ApplyRequireSubscriptionTier ==
    /\ gkind = "requireSubscriptionTier"
    /\ gres = NoGuard
    /\ gres' = RequireSubscriptionTier(gmin, gctx)
    /\ UNCHANGED <<storeVars, now, req, statusChanges, gctx, gmin, gkind, jetsonVars>>

\* the guard on its own, and the one route registered behind it
NextTier ==
    \/ ApplyRequireSubscriptionTier
    \/ \E r \in Reqs : BeginTenantRequest(r, AnalyticsRoutes)
    \/ \E r \in Reqs : KeyLookup(r)
    \/ \E r \in Reqs : KeyTracked(r)
    \/ \E r \in Reqs : ReadQuery(r)

SpecTier == InitTier /\ [][NextTier]_vars

\* the three guards side by side, applied to one context while the stores and
\* the clock move: users carry a role and a list of permissions
GuardKinds == {"requireRole", "requirePermission", "requireSubscriptionTier"}
GuardPermissions == {"cameras:write", "billing:read"}
GuardParameters == {"viewer", "admin", "pro", "enterprise", "cameras:write", "billing:read"}

FrameUsers ==
    {NoUser} \cup
    {[role |-> ro, permissions |-> ps] :
        ro \in {"viewer", "admin"}, ps \in {{}, {"cameras:write"}}}

FrameContexts ==
    {NoCtx} \cup
    {[tenantId |-> t.id, tenant |-> TenantSnapshot(t), user |-> u] :
        t \in Rows(InitialTenants), u \in FrameUsers}

InitFrame ==
    /\ tenants = InitialTenants
    /\ licenses = InitialLicenses
    /\ hubs = InitialHubs
    /\ cameras = InitialCameras
    /\ events = InitialEvents
    /\ usage = InitialUsage
    /\ now = 0
    /\ req = [r \in Reqs |-> IdleReq]
    /\ statusChanges = 0
    /\ JetsonIdle
    /\ gctx \in FrameContexts
    /\ gmin \in GuardParameters
    /\ gres = NoGuard
    /\ gkind \in GuardKinds

\* requirePermission(gmin)(req, res, next) with req.tenant = gctx
ApplyRequirePermission ==
    /\ gkind = "requirePermission"
    /\ gres = NoGuard
    /\ gres' = RequirePermission(gmin, gctx)
    /\ UNCHANGED <<storeVars, now, req, statusChanges, gctx, gmin, gkind, jetsonVars>>

NextFrame ==
    \/ ApplyRequireRole
    \/ ApplyRequirePermission
    \/ ApplyRequireSubscriptionTier
    \/ \E id \in 1..MaxTenants, status \in TenantStatuses : UpdateStatus(id, status)
    \/ Tick

SpecFrame == InitFrame /\ [][NextFrame]_vars

\* the two hierarchy guards with every threshold a caller can pass, those
\* outside the hierarchies included
OpenKinds == {"requireRole", "requireSubscriptionTier"}
OpenThresholds == GuardThresholds \cup TierThresholds
OpenContexts == GuardContexts \cup TierContexts

InitOpen ==
    /\ tenants = InitialTenants
    /\ licenses = InitialLicenses
    /\ hubs = InitialHubs
    /\ cameras = InitialCameras
    /\ events = InitialEvents
    /\ usage = InitialUsage
    /\ now = 0
    /\ req = [r \in Reqs |-> IdleReq]
    /\ statusChanges = 0
    /\ JetsonIdle
    /\ gctx \in OpenContexts
    /\ gmin \in OpenThresholds
    /\ gres = NoGuard
    /\ gkind \in OpenKinds

NextOpen ==
    \/ ApplyRequireRole
    \/ ApplyRequireSubscriptionTier

SpecOpen == InitOpen /\ [][NextOpen]_vars

\* =================================================================== claims
ApiKeyRequests == {r \in Reqs : req[r].pipe = "tenant"}
HubRequests == {r \in Reqs : req[r].pipe = "hub"}
Authenticated(r) == req[r].nextCalled > 0

\* the step in which the lookup of request r returned rows (it did not throw)
LookupReturned(r, pc) ==
    /\ req[r].pc = pc
    /\ req'[r].pc # pc
    /\ req'[r].status # 500

ActiveOwners(key) ==
    {t \in Rows(tenants) : t.apiKey = key /\ t.status = "active"}

\* C1: authenticateApiKey attaches a context and calls next only when the key
\* presented is the apiKey of a tenant that is active when the lookup runs; for
\* the key of a suspended or cancelled tenant, or of no tenant, it answers 401,
\* attaches no context and never calls next.
C1_ApiKeyNeedsActiveTenant ==
    [][\A r \in Reqs : req'[r].pipe = "tenant" =>
          /\ LookupReturned(r, "key_lookup") =>
                IF ActiveOwners(req[r].apiKey) # {}
                THEN /\ req'[r].status = 0
                     /\ req'[r].ctx # NoCtx
                     /\ req'[r].ctx.tenantId \in {t.id : t \in ActiveOwners(req[r].apiKey)}
                ELSE /\ req'[r].status = 401
                     /\ req'[r].pc = "done"
                     /\ req'[r].ctx = NoCtx
                     /\ req'[r].nextCalled = 0
          /\ req'[r].ctx # req[r].ctx => req[r].pc = "key_lookup"
          /\ req'[r].nextCalled > 0 => req'[r].ctx # NoCtx
          /\ req'[r].status = 401 => req'[r].ctx = NoCtx /\ req'[r].nextCalled = 0]_vars

\* a key of a stored, inactive tenant was refused while another request passed
C1_Witness ==
    \E r, o \in ApiKeyRequests :
        /\ req[r].status = 401
        /\ req[r].error = "Invalid API key"
        /\ \E t \in Rows(tenants) : t.apiKey = req[r].apiKey /\ t.status # "active"
        /\ Authenticated(o)

MatchingLicenses(licenseKey, hubSerial) ==
    {l \in Rows(licenses) :
        /\ l.licenseKey = licenseKey
        /\ l.hubSerial = hubSerial
        /\ l.status = "active"
        /\ \E t \in Rows(tenants) : t.id = l.tenantId /\ t.status = "active"}

\* C2: authenticateHubLicense calls next only when key and serial belong to one
\* license row that is active and whose tenant is active; anything else is answered
\* 401 without next; the context attached names the license's tenant.
C2_HubNeedsMatchingActiveLicense ==
    [][\A r \in Reqs : req'[r].pipe = "hub" =>
          /\ LookupReturned(r, "hub_lookup") =>
                IF MatchingLicenses(req[r].licenseKey, req[r].hubSerial) = {}
                THEN /\ req'[r].status = 401
                     /\ req'[r].pc = "done"
                     /\ req'[r].ctx = NoCtx
                     /\ req'[r].nextCalled = 0
                ELSE \/ /\ req'[r].status = 401
                        /\ req'[r].ctx = NoCtx
                     \/ /\ req'[r].status = 0
                        /\ req'[r].ctx # NoCtx
                        /\ req'[r].ctx.tenantId \in
                              {l.tenantId : l \in MatchingLicenses(req[r].licenseKey, req[r].hubSerial)}
          /\ req'[r].ctx # req[r].ctx => req[r].pc = "hub_lookup"
          /\ req'[r].nextCalled > 0 => req'[r].ctx # NoCtx
          /\ req'[r].status = 401 => req'[r].ctx = NoCtx /\ req'[r].nextCalled = 0]_vars

\* a valid key sent with another license's serial was refused, a matching pair passed
C2_Witness ==
    \E r, o \in HubRequests :
        /\ req[r].status = 401
        /\ \E l \in Rows(licenses) : l.licenseKey = req[r].licenseKey
                                     /\ l.status = "active"
                                     /\ l.hubSerial # req[r].hubSerial
        /\ \E l \in Rows(licenses) : l.hubSerial = req[r].hubSerial
        /\ Authenticated(o)
        /\ req[o].ctx.tenantId = 1

\* C3: an active license of an active tenant whose expiresAt lies before the
\* current time is answered 401 with the expired error, not the invalid one;
\* no context, no next.
C3_ExpiredLicenseRejected ==
    [][\A r \in Reqs :
          (/\ req'[r].pipe = "hub"
           /\ LookupReturned(r, "hub_lookup")
           /\ \E l \in MatchingLicenses(req[r].licenseKey, req[r].hubSerial) :
                 l.expiresAt # NoExpiry /\ l.expiresAt < now)
          => /\ req'[r].status = 401
             /\ req'[r].error = "License expired"
             /\ req'[r].pc = "done"
             /\ req'[r].ctx = NoCtx
             /\ req'[r].nextCalled = 0]_vars

C3_Witness ==
    \E r \in HubRequests :
        /\ req[r].error = "License expired"
        /\ \E l \in Rows(licenses) :
              /\ l.licenseKey = req[r].licenseKey
              /\ l.hubSerial = req[r].hubSerial
              /\ l.status = "active"
              /\ tenants[l.tenantId].status = "active"
              /\ l.expiresAt < now

KeyOwners(key) == {t.id : t \in {u \in Rows(tenants) : u.apiKey = key}}

\* C4: every row a tenant read route returns belongs to the tenant that owns the
\* API key presented, whatever other requests run beside it.
C4_TenantIsolation ==
    \A r \in ApiKeyRequests :
        req[r].body.kind = "rows" =>
            \A row \in req[r].body.rows : row.tenantId \in KeyOwners(req[r].apiKey)

\* the severity-filtered event read returned rows while another tenant has such rows
C4_Witness ==
    \E r \in ApiKeyRequests :
        /\ req[r].path = "/events"
        /\ req[r].severity # ""
        /\ req[r].body.kind = "rows"
        /\ req[r].body.rows # {}
        /\ \E e \in events : e.severity = req[r].severity
                             /\ e.tenantId \notin KeyOwners(req[r].apiKey)

IsIssuance(r) ==
    /\ req[r].pipe = "tenant"
    /\ req[r].method = "POST"
    /\ req[r].path = "/hub-licenses"

LicenseCount(tenantId) == Cardinality({l \in Rows(licenses) : l.tenantId = tenantId})

\* C5 (as claimed): an issuance handled while the tenant holds fewer than maxHubs
\* licenses inserts one license (201); one handled at or over the cap is refused
\* with the limit error and writes nothing.
C5_IssuanceFollowsCap ==
    [][\A r \in Reqs :
          (/\ req'[r].pc = "done"
           /\ req[r].pc # "done"
           /\ req'[r].pipe = "tenant"
           /\ req'[r].method = "POST"
           /\ req'[r].path = "/hub-licenses"
           /\ req'[r].nextCalled > 0)
          => IF LicenseCount(req'[r].ctx.tenantId) < req'[r].ctx.tenant.maxHubs
             THEN /\ req'[r].status = 201
                  /\ Len(licenses') = Len(licenses) + 1
             ELSE /\ req'[r].status = 400
                  /\ req'[r].error = "Hub limit exceeded"
                  /\ licenses' = licenses]_vars

\* C6 (as claimed): with the API key returned by POST /api/tenants alone, the
\* new tenant's issuance, once authenticated and under the cap, succeeds.
C6_CreatedTenantIssuesLicenses ==
    \A c, r \in Reqs :
        (/\ req[c].pipe = "create"
         /\ req[c].status = 201
         /\ IsIssuance(r)
         /\ req[r].apiKey = req[c].body.apiKey
         /\ req[r].pc = "done"
         /\ Authenticated(r)
         /\ LicenseCount(req[r].ctx.tenantId) < req[r].ctx.tenant.maxHubs)
        => req[r].status = 201

UsageKeys ==
    {<<req[r].ctx.tenantId, req[r].path, req[r].method, req[r].month>> :
        r \in {x \in Reqs : Authenticated(x)}}

InitialCount(key) ==
    IF \E u \in InitialUsage : UsageKeyOf(u) = key
    THEN (CHOOSE u \in InitialUsage : UsageKeyOf(u) = key).requestCount
    ELSE 0

\* C7 (as claimed): the count stored for a usage key is the number of requests
\* authenticated for that key, overlapping or not.
C7_UsageCountsEveryRequest ==
    \A key \in UsageKeys :
        UsageCount(key) = InitialCount(key) +
            Cardinality({r \in Reqs :
                /\ Authenticated(r)
                /\ <<req[r].ctx.tenantId, req[r].path, req[r].method, req[r].month>> = key})

\* C8: a request that authenticates, in either pipeline, has had trackApiUsage
\* called exactly once, after its context was attached and before next().
C8_MeteredOnceBeforeNext ==
    [][\A r \in Reqs :
          /\ req'[r].meterCalls <= 1
          /\ req'[r].nextCalled <= 1
          /\ req'[r].meterCalls > req[r].meterCalls =>
                req'[r].ctx # NoCtx /\ req'[r].nextCalled = 0
          /\ req'[r].nextCalled > req[r].nextCalled =>
                req[r].meterCalls = 1 /\ req[r].ctx # NoCtx /\ req'[r].ctx = req[r].ctx]_vars

\* one request of each pipeline was handed on, each metered once
C8_Witness ==
    \E r \in ApiKeyRequests, h \in HubRequests :
        /\ Authenticated(r) /\ req[r].meterCalls = 1
        /\ Authenticated(h) /\ req[h].meterCalls = 1

\* C9: when the usage upsert fails, the request stays authenticated: its context
\* stays, next() is called, the middleware answers no error; the failure is logged.
C9_MeterFailureSwallowed ==
    [][\A r \in Reqs :
          (/\ req[r].pc \in {"key_track", "hub_track"}
           /\ req'[r].pc # req[r].pc
           /\ UsageUpsert(<<req[r].ctx.tenantId, req[r].path, req[r].method, req[r].month>>).threw)
          => /\ req'[r].nextCalled = 1
             /\ req'[r].ctx = req[r].ctx
             /\ req'[r].ctx # NoCtx
             /\ req'[r].logged
             /\ req'[r].status \notin {401, 500}
             /\ req'[r].error # "Authentication failed"]_vars

C9_Witness ==
    \E r \in ApiKeyRequests, h \in HubRequests :
        /\ req[r].logged /\ Authenticated(r) /\ req[r].status = 200
        /\ req[h].logged /\ Authenticated(h)

RolePosition(role) == CHOOSE i \in 1..Len(roleHierarchy) : roleHierarchy[i] = role
InHierarchy(role) == \E i \in 1..Len(roleHierarchy) : roleHierarchy[i] = role
GuardApplied == gres # NoGuard
UserAttached == gctx # NoCtx /\ gctx.user # NoUser

\* C10: for roles and thresholds of the hierarchy, requireRole calls next iff a
\* user is attached and its role is at or above the threshold; otherwise 403.
\* requireRole("admin") refuses manager, accepts admin, refuses a context
\* without user whatever the tier.
C10_RequireRoleHierarchy ==
    (GuardApplied /\ InHierarchy(gmin)) =>
        /\ (UserAttached /\ InHierarchy(gctx.user.role)) =>
              (gres.next <=> RolePosition(gctx.user.role) >= RolePosition(gmin))
        /\ ~UserAttached => ~gres.next
        /\ ~gres.next => gres.status = 403
        /\ (gmin = "admin" /\ UserAttached /\ gctx.user.role = "manager") => ~gres.next
        /\ (gmin = "admin" /\ UserAttached /\ gctx.user.role = "admin") => gres.next

\* requireRole("admin") has refused a manager of a pro tenant
C10_Witness ==
    /\ GuardApplied
    /\ gmin = "admin"
    /\ UserAttached
    /\ gctx.user.role = "manager"
    /\ gctx.tenant.subscriptionTier = "pro"
    /\ gres.status = 403

TierPosition(tier) == CHOOSE i \in 1..Len(tierHierarchy) : tierHierarchy[i] = tier
InTierList(tier) == \E i \in 1..Len(tierHierarchy) : tierHierarchy[i] = tier
IsAnalytics(r) == req[r].pipe = "tenant" /\ req[r].path = "/analytics/usage"

\* C11: for tenant tier and threshold both in [basic, pro, enterprise],
\* requireSubscriptionTier calls next iff the tenant's tier is at or above the
\* threshold, and otherwise answers 403 (upgrade required) without next; the
\* usage analytics route hands usage rows only to tenants of tier pro or
\* enterprise and answers 403 to an authenticated tenant below.
C11_RequireTierHierarchy ==
    /\ (GuardApplied /\ gctx # NoCtx /\ InTierList(gmin)
        /\ InTierList(gctx.tenant.subscriptionTier)) =>
          /\ gres.next <=> TierPosition(gctx.tenant.subscriptionTier) >= TierPosition(gmin)
          /\ ~gres.next => gres.status = 403 /\ gres.error = "Subscription upgrade required"
    /\ \A r \in Reqs : IsAnalytics(r) =>
          /\ req[r].body.kind = "rows" =>
                /\ req[r].ctx.tenant.subscriptionTier \in {"pro", "enterprise"}
                /\ \A u \in req[r].body.rows : u.tenantId = req[r].ctx.tenantId
          /\ (req[r].pc = "done" /\ Authenticated(r)
              /\ req[r].ctx.tenant.subscriptionTier = "basic") =>
                /\ req[r].status = 403
                /\ req[r].error = "Subscription upgrade required"

\* the guard refused a basic tenant at threshold pro; the route answered a pro
\* tenant with its usage rows and a basic tenant with 403
C11_Witness ==
    /\ GuardApplied
    /\ gctx # NoCtx
    /\ gctx.tenant.subscriptionTier = "basic"
    /\ gmin = "pro"
    /\ gres.status = 403
    /\ \E r, o \in Reqs :
          /\ IsAnalytics(r) /\ req[r].body.kind = "rows" /\ req[r].body.rows # {}
          /\ IsAnalytics(o) /\ req[o].status = 403 /\ Authenticated(o)

\* C12: when the lookup of authenticateApiKey or authenticateHubLicense throws
\* (a timeout reaches the middleware as a rejected promise), the request fails
\* closed: no context, no call of the usage meter, no write to api_usage, no
\* next(), an error response; and it stays so.
C12_StoreFailureFailsClosed ==
    [][\A r \in Reqs :
          /\ req'[r].threw =>
                /\ req'[r].pc = "done"
                /\ req'[r].body.kind = "error"
                /\ req'[r].status >= 400
                /\ req'[r].ctx = NoCtx
                /\ req'[r].nextCalled = 0
                /\ req'[r].meterCalls = 0
          /\ (req'[r].threw /\ ~req[r].threw) =>
                /\ req[r].pc \in {"key_lookup", "hub_lookup"}
                /\ usage' = usage]_vars

\* the store failed under a key and under a license that would have passed
C12_Witness ==
    \E r \in ApiKeyRequests, h \in HubRequests :
        /\ req[r].threw
        /\ ActiveOwners(req[r].apiKey) # {}
        /\ req[h].threw
        /\ MatchingLicenses(req[h].licenseKey, req[h].hubSerial) # {}

\* a request that presented its credential and was answered 401
CredentialRejected(r) ==
    /\ req[r].status = 401
    /\ \/ req[r].pipe = "tenant" /\ req[r].apiKey # NoKey
       \/ req[r].pipe = "hub" /\ req[r].licenseKey # NoKey /\ req[r].hubSerial # NoSerial

\* the license presented by r is found by the join and is past its expiresAt
ExpiredMatch(r) ==
    \E l \in MatchingLicenses(req[r].licenseKey, req[r].hubSerial) :
        l.expiresAt # NoExpiry /\ now > l.expiresAt

\* C13 (as claimed): any two credential rejections of one pipeline carry the
\* same status and body, whichever internal check failed.
C13_RejectionsIndistinguishable ==
    \A r, o \in Reqs :
        (req[r].pipe = req[o].pipe /\ CredentialRejected(r) /\ CredentialRejected(o))
        => req[r].body = req[o].body

\* C13 (amended): the rejections decided by the lookup (unknown or wrong
\* credential, serial of another license, suspended or cancelled tenant, revoked
\* or suspended license) carry one status and one body per pipeline; the only
\* other credential rejection is 401 "License expired", sent exactly when the
\* license the join found is past its expiresAt.
C13_LookupRejectionsIndistinguishable ==
    [][\A r \in Reqs :
          (/\ LookupReturned(r, IF req[r].pipe = "tenant" THEN "key_lookup" ELSE "hub_lookup")
           /\ req'[r].status = 401)
          => /\ req'[r].error = "License expired" <=> (req[r].pipe = "hub" /\ ExpiredMatch(r))
             /\ \A o \in Reqs \ {r} :
                   (/\ req[o].pipe = req[r].pipe
                    /\ CredentialRejected(o)
                    /\ req[o].error # "License expired"
                    /\ req'[r].error # "License expired")
                   => req'[r].body = req[o].body]_vars

\* a revoked license and a valid key sent with another license's serial were
\* refused with the same body
C13_Witness ==
    \E r, o \in HubRequests :
        /\ CredentialRejected(r) /\ CredentialRejected(o)
        /\ \E l \in Rows(licenses) : /\ l.licenseKey = req[r].licenseKey
                                     /\ l.hubSerial = req[r].hubSerial
                                     /\ l.status = "revoked"
        /\ \E l \in Rows(licenses) : /\ l.licenseKey = req[o].licenseKey
                                     /\ l.status = "active"
                                     /\ l.hubSerial # req[o].hubSerial
        /\ req[r].body = req[o].body

\* the response of r was sent by an authentication middleware (next() was not
\* called) or by a guard behind it (403)
AuthFailure(r) ==
    /\ req[r].pipe \in {"tenant", "hub"}
    /\ req[r].pc = "done"
    /\ req[r].body.kind = "error"
    /\ req[r].nextCalled = 0 \/ req[r].status = 403

AuthFailureStatuses == {401, 403, 429, 503}

\* C14 (as claimed): every failure response of the authentication middlewares
\* and of the guards has the envelope {error, message} and a status among 401,
\* 403, 429 and 503, the response to a failed store call included.
C14_FailureEnvelope ==
    \A r \in Reqs : AuthFailure(r) =>
        /\ DOMAIN req[r].body = {"kind", "error", "message"}
        /\ req[r].status \in AuthFailureStatuses

\* the responses that carry key as their apiKey
KeyResponses(key) ==
    {r \in Reqs : "apiKey" \in DOMAIN req[r].body /\ req[r].body.apiKey = key}

CreatedTenantIds == (Len(InitialTenants) + 1)..Len(tenants)

StoredLicenseKeys == {l.licenseKey : l \in Rows(licenses)}

\* C16 (as claimed): no response of a read route, of a hub route or of a
\* failed authentication or authorization carries a licenseKey or repeats the
\* key submitted.
C16_LicenseKeyNeverRead ==
    \A r \in Reqs :
        /\ req[r].body.kind = "rows" =>
              \A row \in req[r].body.rows :
                  "licenseKey" \in DOMAIN row => row.licenseKey \notin StoredLicenseKeys
        /\ req[r].body.kind = "hub" => "licenseKey" \notin DOMAIN req[r].body.hub
        /\ req[r].body.kind = "error" =>
              /\ "licenseKey" \notin DOMAIN req[r].body
              /\ req[r].licenseKey # NoKey => req[r].body.error # req[r].licenseKey
              /\ (req[r].licenseKey # NoKey /\ "message" \in DOMAIN req[r].body) =>
                    req[r].body.message # req[r].licenseKey

\* the table of the claim: basic 100, pro 500, enterprise 2000, otherwise 100
AdvisoryLimit(tier) ==
    IF tier = "basic" THEN 100
    ELSE IF tier = "pro" THEN 500
    ELSE IF tier = "enterprise" THEN 2000
    ELSE 100

\* C17 (as claimed): the response to a request authenticated through either
\* pipeline carries X-RateLimit-Tier, the tenant's tier, and X-RateLimit-Limit,
\* the tier's table value.
C17_AdvisoryHeaders ==
    \A r \in Reqs :
        (req[r].pipe \in {"tenant", "hub"} /\ Authenticated(r) /\ req[r].pc = "done") =>
            /\ req[r].headers.tier = req[r].ctx.tenant.subscriptionTier
            /\ req[r].headers.limit = AdvisoryLimit(req[r].ctx.tenant.subscriptionTier)

\* C18: no two stored tenants share a slug or an API key; the slug of a
\* creation is derived from the lower-cased name; a creation whose slug is the
\* slug of a stored tenant when its query or its insert runs is rejected and
\* writes nothing, also when the two creations overlap.
C18_SlugAndKeyUnique ==
    [][/\ \A i, j \in 1..Len(tenants') :
             i # j => /\ tenants'[i].slug # tenants'[j].slug
                      /\ tenants'[i].apiKey # tenants'[j].apiKey
       /\ \A r \in Reqs :
             (req[r].pipe = "create" /\ req[r].pc \in {"create_check", "create_insert"}
              /\ req'[r] # req[r]) =>
                /\ req[r].draft.slug = Slugify(ToLowerCase(req[r].draft.name))
                /\ (\E t \in Rows(tenants) : t.slug = req[r].draft.slug) =>
                      /\ tenants' = tenants
                      /\ req'[r].pc = "done"
                      /\ req'[r].status \in {400, 500}]_vars

\* two overlapping creations of one name: both passed the slug query, the first
\* insert was stored, the second, with a key of its own, was refused
C18_Witness ==
    \E c, r \in Reqs :
        /\ req[c].pipe = "create" /\ req[c].status = 201
        /\ req[r].pipe = "create" /\ req[r].status = 500
        /\ req[r].draft.slug = req[c].draft.slug
        /\ \A t \in Rows(tenants) : t.apiKey # req[r].draft.apiKey
        /\ Cardinality({t \in Rows(tenants) : t.slug = req[r].draft.slug}) = 1

\* C19 (as claimed): a license that carries an expiresAt is accepted by
\* authenticateHubLicense only while expiresAt is strictly later than the time
\* of the check; at the instant now = expiresAt it is refused.
C19_ExpiryStrictlyLater ==
    [][\A r \in Reqs :
          (/\ req[r].pipe = "hub"
           /\ LookupReturned(r, "hub_lookup")
           /\ req'[r].ctx # NoCtx)
          => \A l \in MatchingLicenses(req[r].licenseKey, req[r].hubSerial) :
                l.expiresAt # NoExpiry => l.expiresAt > now]_vars

\* the request carries no API key, or lacks one of the two hub headers
CredentialMissing(r) ==
    \/ req[r].pipe = "tenant" /\ req[r].apiKey = NoKey
    \/ req[r].pipe = "hub" /\ (req[r].licenseKey = NoKey \/ req[r].hubSerial = NoSerial)

\* C20: a request without API key (neither header nor query parameter), and a
\* hub request lacking X-License-Key or X-Hub-Serial, is answered 401 with the
\* missing-credential error by the first step of the middleware: it never waits
\* on a lookup, gets no context, is not metered and next is never called.
C20_MissingCredentialNoLookup ==
    \A r \in Reqs : CredentialMissing(r) =>
        /\ req[r].pc = "done"
        /\ req[r].status = 401
        /\ req[r].error = IF req[r].pipe = "tenant" THEN "API key required"
                          ELSE "Hub authentication required"
        /\ req[r].ctx = NoCtx
        /\ req[r].meterCalls = 0
        /\ req[r].nextCalled = 0
        /\ ~req[r].threw

\* a valid license key sent without serial, and a tenant request without key
C20_Witness ==
    \E h \in HubRequests, r \in ApiKeyRequests :
        /\ CredentialMissing(h)
        /\ req[h].licenseKey \in StoredLicenseKeys
        /\ req[h].status = 401
        /\ CredentialMissing(r)
        /\ req[r].status = 401

\* C21 (as claimed): a user of role operator stands where user stands:
\* requireRole("viewer") and requireRole("user") call next for it,
\* requireRole("manager") and requireRole("admin") answer 403.
C21_OperatorRanksAsUser ==
    (GuardApplied /\ UserAttached /\ gctx.user.role = "operator") =>
        /\ gmin \in {"viewer", "user"} => gres.next
        /\ gmin \in {"manager", "admin"} => ~gres.next /\ gres.status = 403

\* what the guard gkind with parameter gmin answers to gctx, evaluated in the
\* current state
GuardOutcome ==
    CASE gkind = "requireRole" -> RequireRole(gmin, gctx)
      [] gkind = "requirePermission" -> RequirePermission(gmin, gctx)
      [] gkind = "requireSubscriptionTier" -> RequireSubscriptionTier(gmin, gctx)
      [] OTHER -> NoGuard

\* C22: the step in which requireRole, requirePermission or
\* requireSubscriptionTier runs changes neither the context nor any store, and
\* its outcome depends on the context and the parameter alone: it is the
\* outcome the guard gives in every later state, however the stores and the
\* clock have moved meanwhile.
C22_GuardsArePure ==
    [][/\ gres' # gres =>
             /\ gctx' = gctx
             /\ gmin' = gmin
             /\ storeVars' = storeVars
             /\ req' = req
             /\ now' = now
       /\ GuardApplied' => gres' = GuardOutcome']_vars

\* requirePermission let a user through, and the user's tenant was suspended
\* afterwards
C22_Witness ==
    /\ GuardApplied
    /\ gkind = "requirePermission"
    /\ gres.next
    /\ tenants[gctx.tenantId].status = "suspended"
    /\ gctx.tenant.status = "active"

HubRecords(tenantId, serial) ==
    {h \in Rows(hubs) : h.tenantId = tenantId /\ h.serialNumber = serial}

HeartbeatDone(r) ==
    /\ req[r].pipe = "hub"
    /\ req[r].path = "/heartbeat"
    /\ Authenticated(r)
    /\ req[r].pc = "done"

\* C23 (as claimed): after any interleaving of authenticated heartbeats there
\* is one hub record per (tenant, serial); every heartbeat either created that
\* record (201) or updated it (200) and is answered with it, also when two
\* first heartbeats of one pair overlap.
C23_HeartbeatIsUpsert ==
    /\ \A h1, h2 \in Rows(hubs) :
          (h1.tenantId = h2.tenantId /\ h1.serialNumber = h2.serialNumber) => h1 = h2
    /\ \A r \in Reqs : HeartbeatDone(r) =>
          /\ req[r].status \in {200, 201}
          /\ req[r].body.kind = "hub"
          /\ Cardinality(HubRecords(req[r].ctx.tenantId, req[r].hubSerial)) = 1
          /\ \A h \in HubRecords(req[r].ctx.tenantId, req[r].hubSerial) :
                h.id = req[r].body.hub.id /\ h.status = "online"

CamerasOf(tenantId) == {c \in cameras : c.tenantId = tenantId}

\* r is an authenticated POST /api/hub/cameras whose hub record was found and
\* which is answered in this step
CamerasAnswered(r) ==
    /\ req[r].path = "/cameras"
    /\ req[r].pc \in {"cam_count", "cam_insert"}
    /\ req'[r].pc = "done"

\* C24: with POST /api/hub/cameras requests handled one after the other, a
\* batch is inserted only if the tenant's camera count plus the batch size is
\* at most maxCameras; a batch that would pass the cap is answered 400
\* "Camera limit exceeded" and no row of it is inserted; the tenant's camera
\* count never exceeds maxCameras.
C24_CameraCap ==
    /\ [](\A t \in Rows(tenants) : Cardinality(CamerasOf(t.id)) <= t.maxCameras)
    /\ [][\A r \in Reqs : CamerasAnswered(r) =>
            LET count == Cardinality(CamerasOf(req[r].ctx.tenantId))
                size == req[r].draft.size
                maxCameras == req[r].ctx.tenant.maxCameras
            IN  /\ cameras' # cameras =>
                      /\ count + size <= maxCameras
                      /\ req'[r].status = 201
                      /\ Cardinality(cameras') = Cardinality(cameras) + size
                /\ count + size > maxCameras =>
                      /\ req'[r].status = 400
                      /\ req'[r].error = "Camera limit exceeded"
                      /\ cameras' = cameras]_vars

\* one batch was inserted and filled the cap, a later one was refused
C24_Witness ==
    \E r1, r2 \in Reqs :
        /\ req[r1].path = "/cameras" /\ req[r1].status = 201
        /\ Cardinality(CamerasOf(req[r1].ctx.tenantId)) = req[r1].ctx.tenant.maxCameras
        /\ req[r2].path = "/cameras" /\ req[r2].status = 400
        /\ req[r2].error = "Camera limit exceeded"
        /\ req[r2].ctx.tenantId = req[r1].ctx.tenantId

\* C25 (as claimed): two issuance requests of one tenant handled at the same
\* time while the tenant holds maxHubs - 1 licenses both pass the cap check and
\* insert: the one answered while the other is still being handled is refused
\* neither by the guard (403) nor by the cap (400).
C25_OverlappingIssuancesPassCap ==
    [][\A r1, r2 \in Reqs :
          (/\ r1 # r2
           /\ IsIssuance(r1) /\ IsIssuance(r2)
           /\ req[r1].apiKey = req[r2].apiKey
           /\ req[r1].pc \notin {"idle", "done"}
           /\ req[r2].pc \notin {"idle", "done"}
           /\ req'[r1].pc = "done"
           /\ req'[r1].nextCalled > 0
           /\ LicenseBodyValid(req[r1].draft)
           /\ LicenseCount(req'[r1].ctx.tenantId) = req'[r1].ctx.tenant.maxHubs - 1)
          => req'[r1].status \notin {400, 403}]_vars

\* r was answered 401 by authenticateApiKey or authenticateHubLicense
RejectedByAuthentication(r) ==
    /\ req[r].pipe \in {"tenant", "hub"}
    /\ req[r].pc = "done"
    /\ req[r].status = 401

\* C26: a request rejected by either authentication middleware has no context
\* attached and no usage call made for it; no step of it, from its arrival to
\* its 401, writes to a store; the count stored for a usage key never passes
\* the number of requests authenticated for that key.
C26_RejectionWritesNothing ==
    /\ [](\A r \in Reqs : RejectedByAuthentication(r) =>
              /\ req[r].ctx = NoCtx
              /\ req[r].meterCalls = 0
              /\ req[r].nextCalled = 0)
    /\ [](\A key \in UsageKeys :
              UsageCount(key) <= InitialCount(key) +
                  Cardinality({r \in Reqs :
                      /\ Authenticated(r)
                      /\ <<req[r].ctx.tenantId, req[r].path, req[r].method, req[r].month>> = key}))
    /\ [][\A r \in Reqs :
            (/\ req'[r] # req[r]
             /\ req'[r].pipe \in {"tenant", "hub"}
             /\ req'[r].ctx = NoCtx)
            => storeVars' = storeVars]_vars

\* rejected: an API key that finds no active tenant, and an expired license
C26_Witness ==
    \E r \in ApiKeyRequests, h \in HubRequests :
        /\ RejectedByAuthentication(r) /\ req[r].error = "Invalid API key"
        /\ RejectedByAuthentication(h) /\ req[h].error = "License expired"

\* r authenticated and was then refused by requireRole or
\* requireSubscriptionTier
RejectedByGuard(r) ==
    /\ req[r].pipe = "tenant"
    /\ Authenticated(r)
    /\ req[r].pc = "done"
    /\ req[r].status = 403

\* C27 (as claimed): a request refused by an authorization guard has been
\* metered: the usage call was made before the guard ran and the count stored
\* for the request's key was incremented.
C27_GuardRejectionIsMetered ==
    \A r \in Reqs : RejectedByGuard(r) =>
        /\ req[r].meterCalls = 1
        /\ UsageCount(<<req[r].ctx.tenantId, req[r].path, req[r].method, req[r].month>>)
              >= InitialCount(<<req[r].ctx.tenantId, req[r].path, req[r].method, req[r].month>>) + 1

\* C28: requireRole with a threshold outside the role hierarchy calls next for
\* every context with a user attached, whatever the role; requireSubscriptionTier
\* with a threshold outside the tier hierarchy calls next for every context,
\* whatever the tier.
C28_UnknownThresholdFailsOpen ==
    GuardApplied =>
        /\ (gkind = "requireRole" /\ ~InHierarchy(gmin) /\ UserAttached) => gres.next
        /\ (gkind = "requireSubscriptionTier" /\ ~InTierList(gmin) /\ gctx # NoCtx) => gres.next

\* requireRole("owner") lets a viewer through
C28_Witness ==
    /\ GuardApplied
    /\ gkind = "requireRole"
    /\ gmin = "owner"
    /\ UserAttached
    /\ gctx.user.role = "viewer"
    /\ gres.next

\* r is an authenticated POST /api/hub/cameras or /events taking a step
IngestStep(r) ==
    /\ req[r].pipe = "hub"
    /\ req[r].path \in {"/cameras", "/events"}
    /\ req[r].pc \in {"cam_hub", "cam_count", "cam_insert", "ev_hub", "ev_insert"}
    /\ req'[r] # req[r]

\* C29: every row a camera or event batch inserts carries the tenant of the
\* authenticated license and the id of the hub record found for the
\* authenticated serial within that tenant, whatever tenantId or hubId the body
\* names; when no hub record exists for the serial the request is answered 404
\* and nothing is inserted.
C29_IngestedRowsAreServerScoped ==
    [][\A r \in Reqs : IngestStep(r) =>
          LET found == HubRecords(req[r].ctx.tenantId, req[r].hubSerial)
          IN  /\ \A row \in (cameras' \ cameras) \cup (events' \ events) :
                    /\ row.tenantId = req[r].ctx.tenantId
                    /\ \E h \in found : row.hubId = h.id
              /\ (found = {} /\ req[r].pc \in {"cam_hub", "ev_hub"}) =>
                    /\ req'[r].pc = "done"
                    /\ req'[r].status = 404
                    /\ cameras' = cameras
                    /\ events' = events]_vars

\* a batch naming another tenant and hub was inserted under the license's own;
\* a batch for a serial without hub record was answered 404
C29_Witness ==
    \E r1, r2 \in Reqs :
        /\ req[r1].pipe = "hub" /\ req[r1].status = 201
        /\ req[r1].draft.kind = "batch"
        /\ req[r1].draft.tenantId \notin {0, req[r1].ctx.tenantId}
        /\ req[r1].draft.hubId \notin {0, req[r1].found}
        /\ \A row \in req[r1].body.rows :
              row.tenantId = req[r1].ctx.tenantId /\ row.hubId = req[r1].found
        /\ req[r2].pipe = "hub" /\ req[r2].status = 404
        /\ req[r2].error = "Hub not found"

\* C30 (as claimed): a stream process that is running and was not stopped is
\* the process activeStreams maps its cameraId to, also after stop then start
\* and after two starts for one cameraId.
C30_ActiveStreamsConsistent ==
    \A p \in 1..Len(processes) :
        processes[p].state = "running" => activeStreams[processes[p].cameraId] = p

====
